---- MODULE Spec2Model ----
(***************************************************************************)
(* A model of the perception-and-refinement core of src/server.py:         *)
(*   - summarize_text  and the shared counter current_summarize_id,        *)
(*   - process_detections (gate, padded crop, detection records),          *)
(*   - analyze_box and run_florence_analysis (prompt construction and the  *)
(*     failure paths of the region describer).                             *)
(* Text is modelled as TLA+ strings, a generated token sequence as a       *)
(* sequence of one-token strings, a Python dict returned by the describer  *)
(* as a sequence of <<key, value>> pairs in insertion order.               *)
(***************************************************************************)
EXTENDS Integers, Sequences, FiniteSets, TLC

VARIABLES
    \* ---- summarize_text -------------------------------------------------
    event_loop,            \* TRUE: handlers run on one event loop and switch
                           \* only at await points; FALSE: handlers run on
                           \* threads and switch between any two statements
    summarizer_model,      \* TRUE when the Qwen model was loaded at startup
    current_summarize_id,  \* the global counter, server.py:37
    pc,                    \* the line each summarize_text call stands at
    request,               \* the request body of each call
    current_id,            \* the local current_id of each call
    query,                 \* the user message composed for each call, as the
                           \* sequence of its literal and inserted parts
    output_ids,            \* the tokens generate() has produced for each call
    response,              \* what each call answered
    seen,                  \* the counter value read at line 566 by each call
    overlap,               \* the calls that wrote the counter while this call
                           \* was between its own write and its line 566
    \* ---- process_detections ---------------------------------------------
    image_size,            \* <<img_width, img_height>> of the image
    deep_analysis,         \* the deep_analysis argument
    results,               \* the raw detections the loop has taken so far
    detections,            \* the list `detections` of lines 647-708
    response_data,         \* the list the function returns, lines 710-724
    dpc,                   \* "loop" while the loop runs, then "returned"
    dtrace,                \* per detection: what the gate, the crop and the
                           \* describer did
    \* ---- analyze_box -----------------------------------------------------
    florence_model,        \* TRUE when Florence-2 was loaded at startup
    box_request,           \* the last request body given to analyze_box
    box_response,          \* its answer
    box_trace,             \* what the crop and the describer did for it
    \* ---- lifespan and get_status -----------------------------------------
    yolo_model,            \* TRUE when the detector was loaded, line 51
    florence_processor,    \* TRUE when the Florence processor was loaded, line 78
    lifespan_pc,           \* the next load of lifespan: "yolo", "qwen",
                           \* "florence", "processor"; then "serving" after a
                           \* yield, "failed" after the raise of line 89
    load_error,            \* which load raised: "none", "yolo", "qwen",
                           \* "florence", "processor"
    status_response        \* the last answer of get_status

refineVars == <<event_loop, summarizer_model, current_summarize_id, pc, request,
                current_id, query, output_ids, response, seen, overlap>>

detectVars == <<image_size, deep_analysis, results, detections, response_data,
                dpc, dtrace>>

analyzeVars == <<florence_model, box_request, box_response, box_trace>>

startupVars == <<yolo_model, florence_processor, lifespan_pc, load_error,
                 status_response>>

-----------------------------------------------------------------------------
(* Bounds of the model *)

\* number of summarize_text calls issued in one run
NumCalls == 2

\* stands for max_new_tokens = 256 of server.py:559, scaled down
MaxNewTokens == 2

Calls == 1..NumCalls

-----------------------------------------------------------------------------
(* The profile registry, object_config.py.  Four of its eighty rows: one    *)
(* analyzable caption class, one analyzable VQA class, one VQA class and     *)
(* one caption class that are not analyzable.                                *)

OBJECT_CONFIG ==
    [ person |->
        [color |-> "#00FF00", task |-> "<DETAILED_CAPTION>",
         prompt |-> "Identify this person.",
         llm_query |-> "Identify this person. Provide name or physical description.",
         category |-> "Humans", is_analyzable |-> TRUE],
      car |->
        [color |-> "#FF6B00", task |-> "<VQA>",
         prompt |-> "What is the make and model of this car?",
         llm_query |-> "Identify manufacturer, model, and estimated year.",
         category |-> "Vehicles", is_analyzable |-> TRUE],
      cow |->
        [color |-> "#FF00FF", task |-> "<VQA>",
         prompt |-> "What breed of cattle is this?",
         llm_query |-> "Identify the cattle breed.",
         category |-> "Animals", is_analyzable |-> FALSE],
      bench |->
        [color |-> "#8B4513", task |-> "<DETAILED_CAPTION>",
         prompt |-> "Describe the bench.",
         llm_query |-> "Describe bench style.",
         category |-> "Outdoors", is_analyzable |-> FALSE] ]

\* a class name the detector may report that is no key of the registry
UnknownClass == "drone"

ClassNames == DOMAIN OBJECT_CONFIG \cup {UnknownClass}

\* config.get("color", "#00FF00") on OBJECT_CONFIG.get(class_name, {})
ConfigColor(class_name) ==
    IF class_name \in DOMAIN OBJECT_CONFIG
    THEN OBJECT_CONFIG[class_name].color ELSE "#00FF00"

\* Faulty variant: the default of a missing row taken as analyzable
ConfigIsAnalyzable_DefaultTrue(class_name) ==
    IF class_name \in DOMAIN OBJECT_CONFIG
    THEN OBJECT_CONFIG[class_name].is_analyzable ELSE TRUE

\* config.get("is_analyzable", False)
ConfigIsAnalyzable(class_name) ==
    IF class_name \in DOMAIN OBJECT_CONFIG
    THEN OBJECT_CONFIG[class_name].is_analyzable ELSE FALSE

\* config.get("category", "Misc")
ConfigCategory(class_name) ==
    IF class_name \in DOMAIN OBJECT_CONFIG
    THEN OBJECT_CONFIG[class_name].category ELSE "Misc"

-----------------------------------------------------------------------------
(* summarize_text, server.py:472-575 *)

EOS == "<|im_end|>"

CancelledText == <<"[Request cancelled by a newer one]">>

\* A request body: `keys` are the keys it has, the other fields their values
Body(keys, text, mode, category, type) ==
    [keys |-> keys, text |-> text, mode |-> mode, category |-> category,
     type |-> type]

NoRequest == Body({}, "", "", "", "")

\* Request bodies: the "text" key absent, present and empty, present; a page
\* to summarize and the description of a car to refine.
Requests ==
    { NoRequest,
      Body({"text"}, "", "", "", ""),
      Body({"text", "mode", "category", "type"}, "red sedan", "refine", "Vehicles", "car"),
      Body({"text"}, "a long page", "", "", "") }

\* Refine requests for the text "red sedan": the type absent, known or
\* unknown, with the category absent, a key of the category table, another
\* word or empty; next to them a page to summarize and a body without text.
RefineCategories ==
    {"Humans", "Vehicles", "Animals", "Electronics", "Food", "Household",
     "Misc", "gadget", ""}

RefineRequests ==
    { Body({"text", "mode"}, "red sedan", "refine", "", "") }
    \cup { Body({"text", "mode", "category"}, "red sedan", "refine", cat, "") :
             cat \in RefineCategories }
    \cup { Body({"text", "mode", "type"}, "red sedan", "refine", "", ty) :
             ty \in ClassNames }
    \cup { Body({"text", "mode", "category", "type"}, "red sedan", "refine", cat, ty) :
             cat \in RefineCategories, ty \in ClassNames }
    \cup { Body({"text"}, "a long page", "", "", ""),
           NoRequest }

\* request.get("text"): "" stands for None as well, both are falsy at line 484
GetText(req) == IF "text" \in req.keys THEN req.text ELSE ""

\* request.get("mode", "summarize")
GetMode(req) == IF "mode" \in req.keys THEN req.mode ELSE "summarize"

\* request.get("category", "Misc")
GetCategory(req) == IF "category" \in req.keys THEN req.category ELSE "Misc"

\* request.get("type"): "" stands for None, both are falsy at line 506
GetType(req) == IF "type" \in req.keys THEN req.type ELSE ""

\* The instruction-following engine decodes greedily (do_sample=False), so
\* the k-th token is a function of the prompt.  One prompt ends with the
\* end-of-sequence token after two tokens, the other never ends by itself.
EngineToken(text, k) ==
    IF text = "red sedan"
    THEN (IF k = 1 THEN " " ELSE IF k = 2 THEN "Toyota" ELSE EOS)
    ELSE (IF k % 2 = 1 THEN "w" ELSE " ")

\* tokenizer.decode(..., skip_special_tokens=True)
RECURSIVE SkipSpecial(_)
SkipSpecial(ids) ==
    IF ids = <<>> THEN <<>>
    ELSE IF Head(ids) = EOS THEN SkipSpecial(Tail(ids))
    ELSE <<Head(ids)>> \o SkipSpecial(Tail(ids))

\* str.strip()
RECURSIVE LStrip(_)
LStrip(s) == IF s # <<>> /\ Head(s) = " " THEN LStrip(Tail(s)) ELSE s

RECURSIVE RStrip(_)
RStrip(s) ==
    IF s # <<>> /\ s[Len(s)] = " " THEN RStrip(SubSeq(s, 1, Len(s) - 1)) ELSE s

Strip(s) == RStrip(LStrip(s))

Decode(ids) == Strip(SkipSpecial(ids))

\* category.lower(), for the categories of the requests
LowerCase(category) ==
    CASE category = "Misc" -> "misc"
      [] category = "Vehicles" -> "vehicles"
      [] category = "Humans" -> "humans"
      [] category = "Animals" -> "animals"
      [] category = "Electronics" -> "electronics"
      [] category = "Food" -> "food"
      [] category = "Household" -> "household"
      [] category = "gadget" -> "gadget"
      [] category = "" -> ""

\* lines 511-518
fallback_config ==
    [ Humans |-> "Identify this person. Provide name or physical description.",
      Vehicles |-> "Identify manufacturer, model, and estimated year.",
      Animals |-> "Identify breed/species and notable features.",
      Electronics |-> "Identify brand and specific model.",
      Food |-> "Identify food type and ingredients.",
      Household |-> "Identify item and style/brand." ]

\* obj_config.get("llm_query") or obj_config.get("prompt") on
\* OBJECT_CONFIG.get(obj_type, {}) if obj_type else {}; "" stands for None
ProfileHint(obj_type) ==
    IF obj_type # "" /\ obj_type \in DOMAIN OBJECT_CONFIG
    THEN (IF OBJECT_CONFIG[obj_type].llm_query # ""
          THEN OBJECT_CONFIG[obj_type].llm_query
          ELSE OBJECT_CONFIG[obj_type].prompt)
    ELSE ""

\* Faulty variant: the category table is asked before the profile
RefineHint_CategoryFirst(obj_type, category) ==
    IF category \in DOMAIN fallback_config THEN fallback_config[category]
    ELSE IF ProfileHint(obj_type) # "" THEN ProfileHint(obj_type)
    ELSE "Identify this " \o LowerCase(category) \o "."

\* lines 506-519: the hint of refine mode
RefineHint(obj_type, category) ==
    IF ProfileHint(obj_type) # "" THEN ProfileHint(obj_type)
    ELSE IF category \in DOMAIN fallback_config THEN fallback_config[category]
    ELSE "Identify this " \o LowerCase(category) \o "."

MaxWords == "Maximum 20 words."

\* lines 504-535: the user message, part by part as the literals compose it
Query(req) ==
    IF GetMode(req) = "refine"
    THEN << "RAW VISION DATA: ", GetText(req), "\n",
            "IDENTIFICATION QUERY: ", RefineHint(GetType(req), GetCategory(req)), "\n\n",
            "TASK: Perform high-certainty identification. Output ONLY the identification data. ",
            MaxWords >>
    ELSE << "SOURCE TEXT: ", GetText(req), "\n\n",
            "TASK: Summarize the text with the following structure:\n",
            "1. Start with 1 to 5 emojis representing sentiment (no words allowed here only emojis).\n",
            "2. Next add a new line with separator '------'.\n",
            "3. Finally write the 30-100 word summary about the SOURCE TEXT." >>

NoResponse == [status |-> 0]

Running(c) == pc[c] \notin {"idle", "done"}

\* Faulty variant: the handler gives up the loop between any two statements
CanRun_Anytime(c) == TRUE

\* On an event loop a handler keeps the loop until it awaits or returns, and
\* summarize_text awaits nowhere; on threads any call may take the next step.
CanRun(c) == event_loop => \A d \in Calls \ {c} : ~Running(d)

\* The value CancelCriteria.__call__ returns, server.py:552-554
CancelRequested(c) == current_summarize_id # current_id[c]

\* Faulty variant: the comparison of line 566 written with < instead of !=
IsCancelled_Less(c, counter) == counter < current_id[c]

\* The comparison of line 566
IsCancelled(c, counter) == counter # current_id[c]

\* Faulty variant: the counter is advanced before the text is validated
Enter_CountsRejected(c, req) ==
    /\ UNCHANGED <<detectVars, analyzeVars, startupVars, query>>
    /\ pc[c] = "idle"
    /\ CanRun(c)
    /\ request' = [request EXCEPT ![c] = req]
    /\ IF ~summarizer_model
       THEN /\ pc' = [pc EXCEPT ![c] = "done"]
            /\ response' = [response EXCEPT ![c] =
                   [status |-> 503, detail |-> "Summarization model not loaded"]]
            /\ UNCHANGED current_summarize_id
       ELSE IF GetText(req) = ""
       THEN /\ pc' = [pc EXCEPT ![c] = "done"]
            /\ response' = [response EXCEPT ![c] =
                   [status |-> 500, detail |-> "Summarization failed: 400: No text provided"]]
            /\ current_summarize_id' = current_summarize_id + 1
       ELSE /\ pc' = [pc EXCEPT ![c] = "l488"]
            /\ UNCHANGED <<response, current_summarize_id>>
    /\ UNCHANGED <<event_loop, summarizer_model, current_id, output_ids, seen,
                   overlap>>

\* lines 479-485: the engine and the text are validated.  The 503 is raised
\* before the try block; the 400 is raised inside it and so is caught by the
\* except clause of line 573, which answers 500.
Enter(c, req) ==
    /\ UNCHANGED <<detectVars, analyzeVars, startupVars, query>>
    /\ pc[c] = "idle"
    /\ CanRun(c)
    /\ request' = [request EXCEPT ![c] = req]
    /\ IF ~summarizer_model
       THEN /\ pc' = [pc EXCEPT ![c] = "done"]
            /\ response' = [response EXCEPT ![c] =
                   [status |-> 503, detail |-> "Summarization model not loaded"]]
       ELSE IF GetText(req) = ""
       THEN /\ pc' = [pc EXCEPT ![c] = "done"]
            /\ response' = [response EXCEPT ![c] =
                   [status |-> 500, detail |-> "Summarization failed: 400: No text provided"]]
       ELSE /\ pc' = [pc EXCEPT ![c] = "l488"]
            /\ UNCHANGED response
    /\ UNCHANGED <<event_loop, summarizer_model, current_summarize_id,
                   current_id, output_ids, seen, overlap>>

\* line 488: current_id = current_summarize_id + 1
ReadCounter(c) ==
    /\ UNCHANGED <<detectVars, analyzeVars, startupVars, query>>
    /\ pc[c] = "l488"
    /\ CanRun(c)
    /\ current_id' = [current_id EXCEPT ![c] = current_summarize_id + 1]
    /\ pc' = [pc EXCEPT ![c] = "l489"]
    /\ UNCHANGED <<event_loop, summarizer_model, current_summarize_id, request,
                   output_ids, response, seen, overlap>>

\* line 489: current_summarize_id = current_id
WriteCounter(c) ==
    /\ UNCHANGED <<detectVars, analyzeVars, startupVars, query>>
    /\ pc[c] = "l489"
    /\ CanRun(c)
    /\ current_summarize_id' = current_id[c]
    /\ pc' = [pc EXCEPT ![c] = "l491"]
    /\ overlap' = [d \in Calls |->
                     IF d # c /\ pc[d] \in {"l491", "generate", "l566"}
                     THEN overlap[d] \cup {c} ELSE overlap[d]]
    /\ UNCHANGED <<event_loop, summarizer_model, request, current_id,
                   output_ids, response, seen>>

\* lines 491-544: the query, the chat template and the tokenizer
BuildPrompt(c) ==
    /\ UNCHANGED <<detectVars, analyzeVars, startupVars>>
    /\ pc[c] = "l491"
    /\ CanRun(c)
    /\ query' = [query EXCEPT ![c] = Query(request[c])]
    /\ pc' = [pc EXCEPT ![c] = "generate"]
    /\ UNCHANGED <<event_loop, summarizer_model, current_summarize_id, request,
                   current_id, output_ids, response, seen, overlap>>

\* Faulty variant: generation stops one token after max_new_tokens
GenerateToken_OneMore(c) ==
    /\ UNCHANGED <<detectVars, analyzeVars, startupVars, query>>
    /\ pc[c] = "generate"
    /\ CanRun(c)
    /\ LET tok == EngineToken(request[c].text, Len(output_ids[c]) + 1)
           ids == Append(output_ids[c], tok)
           stop == \/ Len(ids) >= MaxNewTokens + 1
                   \/ tok = EOS
                   \/ CancelRequested(c)
       IN /\ output_ids' = [output_ids EXCEPT ![c] = ids]
          /\ pc' = [pc EXCEPT ![c] = IF stop THEN "l566" ELSE "generate"]
    /\ UNCHANGED <<event_loop, summarizer_model, current_summarize_id, request,
                   current_id, response, seen, overlap>>

\* lines 556-563: one step of generate().  The engine appends a token and
\* then evaluates the stopping criteria: the length limit, the end of
\* sequence, and CancelCriteria.
GenerateToken(c) ==
    /\ UNCHANGED <<detectVars, analyzeVars, startupVars, query>>
    /\ pc[c] = "generate"
    /\ CanRun(c)
    /\ LET tok == EngineToken(request[c].text, Len(output_ids[c]) + 1)
           ids == Append(output_ids[c], tok)
           stop == \/ Len(ids) >= MaxNewTokens
                   \/ tok = EOS
                   \/ CancelRequested(c)
       IN /\ output_ids' = [output_ids EXCEPT ![c] = ids]
          /\ pc' = [pc EXCEPT ![c] = IF stop THEN "l566" ELSE "generate"]
    /\ UNCHANGED <<event_loop, summarizer_model, current_summarize_id, request,
                   current_id, response, seen, overlap>>

\* lines 565-568: the counter is read again after generation
CheckCancelled(c) ==
    /\ UNCHANGED <<detectVars, analyzeVars, startupVars, query>>
    /\ pc[c] = "l566"
    /\ CanRun(c)
    /\ seen' = [seen EXCEPT ![c] = current_summarize_id]
    /\ IF IsCancelled(c, current_summarize_id)
       THEN /\ pc' = [pc EXCEPT ![c] = "done"]
            /\ response' = [response EXCEPT ![c] =
                   [status |-> 200, summary |-> CancelledText, cancelled |-> TRUE]]
       ELSE /\ pc' = [pc EXCEPT ![c] = "l570"]
            /\ UNCHANGED response
    /\ UNCHANGED <<event_loop, summarizer_model, current_summarize_id, request,
                   current_id, output_ids, overlap>>

\* lines 570-571: the generated tokens are decoded and returned
ReturnSummary(c) ==
    /\ UNCHANGED <<detectVars, analyzeVars, startupVars, query>>
    /\ pc[c] = "l570"
    /\ CanRun(c)
    /\ pc' = [pc EXCEPT ![c] = "done"]
    /\ response' = [response EXCEPT ![c] =
           [status |-> 200, summary |-> Decode(output_ids[c])]]
    /\ UNCHANGED <<event_loop, summarizer_model, current_summarize_id, request,
                   current_id, output_ids, seen, overlap>>

\* lines 573-575: the tokenizer, the engine or the decoder raises
Raise(c) ==
    /\ UNCHANGED <<detectVars, analyzeVars, startupVars, query>>
    /\ pc[c] \in {"l491", "generate", "l570"}
    /\ CanRun(c)
    /\ pc' = [pc EXCEPT ![c] = "done"]
    /\ response' = [response EXCEPT ![c] =
           [status |-> 500, detail |-> "Summarization failed"]]
    /\ UNCHANGED <<event_loop, summarizer_model, current_summarize_id, request,
                   current_id, output_ids, seen, overlap>>

-----------------------------------------------------------------------------
(* Numbers.  A confidence is an integer number of 1/10000, a pixel           *)
(* coordinate an integer number of 1/10 pixel, a percentage an integer       *)
(* number of 1/100 percent.                                                  *)

Max(a, b) == IF a >= b THEN a ELSE b
Min(a, b) == IF a <= b THEN a ELSE b

\* n/d rounded to the nearest integer, ties to even, as Python's round()
RoundDiv(n, d) ==
    LET q == n \div d
        r == n % d
    IN IF 2 * r < d THEN q
       ELSE IF 2 * r > d THEN q + 1
       ELSE IF q % 2 = 0 THEN q ELSE q + 1

\* int(x) of a coordinate: truncation towards zero, in whole pixels
PyInt(x) == IF x >= 0 THEN x \div 10 ELSE -((-x) \div 10)

\* round(confidence, 3), in 1/1000
Round3(confidence) == RoundDiv(confidence, 10)

\* The floats that are no numbers.  The coordinates are numpy floats, whose
\* division by zero raises nothing: it gives inf, -inf or nan.
PosInf == 1000000000
NegInf == -1000000000
NaN == 2000000000

\* a - b on floats
FSub(a, b) ==
    IF a = NaN \/ b = NaN THEN NaN
    ELSE IF a = PosInf THEN (IF b = PosInf THEN NaN ELSE PosInf)
    ELSE IF a = NegInf THEN (IF b = NegInf THEN NaN ELSE NegInf)
    ELSE IF b = PosInf THEN NegInf
    ELSE IF b = NegInf THEN PosInf
    ELSE a - b

\* Faulty variant: the quotient cut off after 2 places instead of rounded
Percent_Truncated(x, dim) ==
    IF dim = 0 THEN NaN ELSE (x * 1000) \div dim

\* round((x / dim) * 100, 2), in 1/100 percent.  dim is an entry of the shape
\* of an array and so never negative.
Percent(x, dim) ==
    IF dim = 0
    THEN (IF x > 0 THEN PosInf ELSE IF x < 0 THEN NegInf ELSE NaN)
    ELSE RoundDiv(x * 1000, dim)

-----------------------------------------------------------------------------
(* run_florence_analysis, server.py:726-819 *)

\* What the vision-language engine does in one call: each step of the chain
\* may fail, or the call succeeds.
FlorenceOutcomes ==
    {"processor_raises", "processor_empty", "to_device_raises", "no_pixel_values",
     "generate_raises", "decode_raises", "empty_text", "post_process_raises", "ok"}

GeneratedText == "a man in a red jacket"

CaptionTasks == {"<CAPTION>", "<DETAILED_CAPTION>", "<MORE_DETAILED_CAPTION>"}

\* A Python dict with one entry
Dict1(k, v) == << <<k, v>> >>

HasKey(d, k) == \E i \in 1..Len(d) : d[i][1] = k

\* d[k] for a key that is present
Lookup(d, k) == d[CHOOSE i \in 1..Len(d) : d[i][1] = k][2]

\* d.get(k, default)
DictGet(d, k, default) == IF HasKey(d, k) THEN Lookup(d, k) ELSE default

\* Faulty variant: the hint is appended whether or not it is empty, with a blank
BuildFlorencePrompt_Spaced(task_prompt, text_input) ==
    task_prompt \o " " \o text_input

\* lines 732-735: the prompt
BuildFlorencePrompt(task_prompt, text_input) ==
    IF text_input # "" THEN task_prompt \o text_input ELSE task_prompt

\* line 739
InvalidImageResult(task_prompt) == Dict1("error", "Invalid image")

\* The mapping run_florence_analysis returns for an image of the given size.
\* `outcome` is what the engine does.  No path lets an exception out: the
\* inner handlers answer lines 753, 785, 793, the outer one line 819.
FlorenceResults(size, task_prompt, text_input, outcome) ==
    IF size[1] = 0 \/ size[2] = 0 THEN InvalidImageResult(task_prompt)
    ELSE IF outcome = "processor_raises"
         THEN Dict1(task_prompt, "Processor error: bad input")
    ELSE IF outcome = "processor_empty"
         THEN Dict1(task_prompt, "Error: Processor returned nothing")
    ELSE IF outcome = "to_device_raises"
         THEN Dict1(task_prompt, "Analysis error: device lost")
    ELSE IF outcome = "no_pixel_values"
         THEN Dict1(task_prompt, "Error: No image data processed")
    ELSE IF outcome = "generate_raises"
         THEN Dict1(task_prompt, "Generation error: out of memory")
    ELSE IF outcome = "decode_raises"
         THEN Dict1(task_prompt, "Decoding error: bad token")
    ELSE IF outcome = "empty_text"
         THEN Dict1(task_prompt, "No response generated")
    ELSE IF outcome = "post_process_raises" /\ task_prompt \in CaptionTasks
         THEN Dict1(task_prompt, GeneratedText)
    ELSE Dict1(task_prompt, GeneratedText)

\* The failure paths of the chain: every path but the successful one
FlorenceFailed(size, task_prompt, outcome) ==
    \/ size[1] = 0 \/ size[2] = 0
    \/ outcome \in FlorenceOutcomes \ {"ok", "post_process_raises"}
    \/ outcome = "post_process_raises" /\ task_prompt \in CaptionTasks

\* Whether florence_processor is reached with the prompt, line 750
EngineReached(size) == size[1] # 0 /\ size[2] # 0

-----------------------------------------------------------------------------
(* Crops, server.py:425-431 and 667-673 *)

pad == 40

\* Faulty variant: the right and lower edge not clamped to the image
CropBox_Unclamped(x1, y1, x2, y2, img_width, img_height) ==
    << Max(0, PyInt(x1) - pad), Max(0, PyInt(y1) - pad),
       PyInt(x2) + pad, PyInt(y2) + pad >>

\* The box given to image.crop: the pixel box padded and clamped
CropBox(x1, y1, x2, y2, img_width, img_height) ==
    << Max(0, PyInt(x1) - pad), Max(0, PyInt(y1) - pad),
       Min(img_width, PyInt(x2) + pad), Min(img_height, PyInt(y2) + pad) >>

\* image.crop raises ValueError in recent Pillow releases when right < left
\* or lower < upper; older releases return an image of size 0 there.
CropInverted(cb) == cb[3] < cb[1] \/ cb[4] < cb[2]

CropSize(cb) == << Max(0, cb[3] - cb[1]), Max(0, cb[4] - cb[2]) >>

CropErrorText(cb) ==
    IF cb[3] < cb[1] THEN "Coordinate 'right' is less than 'left'"
    ELSE "Coordinate 'lower' is less than 'upper'"

-----------------------------------------------------------------------------
(* process_detections, server.py:645-724 *)

\* number of raw detections in one call
MaxDetections == 2

\* <<img_width, img_height>>
ImageSizes == { <<50, 50>>, <<4, 60>> }

NormalBox == <<100, 100, 300, 400>>   \* (10.0, 10.0)-(30.0, 40.0)
FracBox   == <<459, 7, 500, 500>>     \* (45.9, 0.7)-(50.0, 50.0)
EdgeBox   == <<875, 100, 950, 400>>   \* (87.5, 10.0)-(95.0, 40.0)
FarBox    == <<1000, 100, 1100, 400>> \* (100.0, 10.0)-(110.0, 40.0)
SlimBox   == <<10, 100, 30, 400>>     \* (1.0, 10.0)-(3.0, 40.0)

Raw(class_name, confidence, box) ==
    [class_name |-> class_name, confidence |-> confidence, xyxy |-> box]

\* What the detector reports: every class around the threshold, and boxes
\* that the padding and clamping turn into small or inverted crop boxes.
RawDetections ==
    {Raw(cn, cf, NormalBox) : cn \in ClassNames, cf \in {8500, 9000}}
    \cup {Raw("person", cf, NormalBox) : cf \in {8499, 8504, 8506}}
    \cup {Raw("person", 9000, b) : b \in {FracBox, EdgeBox, FarBox, SlimBox}}
    \cup {Raw(UnknownClass, 9000, EdgeBox)}

\* Faulty variant: the gate with >= in place of >
GatePasses_AtLeast(deep, is_analyzable, confidence) ==
    deep /\ is_analyzable /\ confidence >= 8500

\* line 666: deep_analysis and is_analyzable and confidence > 0.85
GatePasses(deep, is_analyzable, confidence) ==
    deep /\ is_analyzable /\ confidence > 8500

\* Faulty variant: the size check with the limit 3 in place of 5
CropTooSmall_Limit3(size) == size[1] < 3 \/ size[2] < 3

\* line 676: person_image.width < 5 or person_image.height < 5
CropTooSmall(size) == size[1] < 5 \/ size[2] < 5

\* lines 683-688: the text taken from the describer's mapping
CaptionOf(florence_results) ==
    IF HasKey(florence_results, "<DETAILED_CAPTION>")
    THEN Lookup(florence_results, "<DETAILED_CAPTION>")
    ELSE IF HasKey(florence_results, "<CAPTION>")
    THEN Lookup(florence_results, "<CAPTION>")
    ELSE IF florence_results # <<>> THEN florence_results[1][2]
    ELSE "No caption"

NoTrace ==
    [gate |-> FALSE, crop |-> "none", size |-> <<0, 0>>, described |-> FALSE,
     engine |-> FALSE, prompt |-> "", florence_results |-> <<>>]

\* The box given to image.crop at line 673
DetectionCrop(det) ==
    CropBox(det.xyxy[1], det.xyxy[2], det.xyxy[3], det.xyxy[4],
            image_size[1], image_size[2])

\* The detection passes the gate of line 666
Gated(det) ==
    GatePasses(deep_analysis, ConfigIsAnalyzable(det.class_name), det.confidence)

\* line 673 raises: `strict` tells whether image.crop rejects an inverted box
CropRaises(det, strict) == Gated(det) /\ CropInverted(DetectionCrop(det)) /\ strict

\* line 681 is reached
Describes(det, strict) ==
    /\ Gated(det)
    /\ ~CropRaises(det, strict)
    /\ ~CropTooSmall(CropSize(DetectionCrop(det)))

\* Faulty variant: the task marker of the profile of the class
DetectionTask_OfProfile(class_name) ==
    IF class_name \in DOMAIN OBJECT_CONFIG
    THEN OBJECT_CONFIG[class_name].task ELSE "<DETAILED_CAPTION>"

\* line 681: the task marker given to the describer, whatever the class
DetectionTask(class_name) == "<DETAILED_CAPTION>"

\* lines 664-693: the analysis text of one detection and what was done for it
AnalyseDetection(det, strict, outcome) ==
    LET size == CropSize(DetectionCrop(det))
        task == DetectionTask(det.class_name)
    IN IF ~Gated(det)
       THEN [analysis |-> "", trace |-> NoTrace]
       ELSE IF CropRaises(det, strict)
       THEN [analysis |-> "Analysis error: " \o CropErrorText(DetectionCrop(det)),
             trace |-> [NoTrace EXCEPT !.gate = TRUE, !.crop = "raised"]]
       ELSE IF ~Describes(det, strict)
       THEN [analysis |-> "Crop too small",
             trace |-> [NoTrace EXCEPT !.gate = TRUE, !.crop = "ok", !.size = size]]
       ELSE [analysis |-> CaptionOf(FlorenceResults(size, task, "", outcome)),
             trace |-> [gate |-> TRUE, crop |-> "ok", size |-> size,
                        described |-> TRUE, engine |-> EngineReached(size),
                        prompt |-> BuildFlorencePrompt(task, ""),
                        florence_results |-> FlorenceResults(size, task, "", outcome)]]

\* Faulty variant: the y coordinates divided by the width
DetectionRecord_ByWidth(det, analysis_text) ==
    [class |-> det.class_name,
     confidence |-> Round3(det.confidence),
     analysis |-> analysis_text,
     color |-> ConfigColor(det.class_name),
     is_analyzable |-> ConfigIsAnalyzable(det.class_name),
     category |-> ConfigCategory(det.class_name),
     bbox |-> [x1 |-> Percent(det.xyxy[1], image_size[1]),
               y1 |-> Percent(det.xyxy[2], image_size[1]),
               x2 |-> Percent(det.xyxy[3], image_size[1]),
               y2 |-> Percent(det.xyxy[4], image_size[1])]]

\* lines 695-708: the record appended to `detections`
DetectionRecord(det, analysis_text) ==
    [class |-> det.class_name,
     confidence |-> Round3(det.confidence),
     analysis |-> analysis_text,
     color |-> ConfigColor(det.class_name),
     is_analyzable |-> ConfigIsAnalyzable(det.class_name),
     category |-> ConfigCategory(det.class_name),
     bbox |-> [x1 |-> Percent(det.xyxy[1], image_size[1]),
               y1 |-> Percent(det.xyxy[2], image_size[2]),
               x2 |-> Percent(det.xyxy[3], image_size[1]),
               y2 |-> Percent(det.xyxy[4], image_size[2])]]

\* lines 712-723: the record of the returned list
ResponseRecord(d) ==
    [x |-> d.bbox.x1, y |-> d.bbox.y1,
     width |-> FSub(d.bbox.x2, d.bbox.x1), height |-> FSub(d.bbox.y2, d.bbox.y1),
     color |-> d.color, type |-> d.class, analysis |-> d.analysis,
     confidence |-> d.confidence, is_analyzable |-> d.is_analyzable,
     category |-> d.category]

\* The loop of lines 650-653 has a further box to take
MoreBoxes == dpc = "loop" /\ Len(results) < MaxDetections

\* Faulty variant: analysis_text is not reset for a detection the gate
\* declines, which then shows the text of the detection before it
ProcessBox_StaleText(det, strict, outcome) ==
    /\ MoreBoxes
    /\ UNCHANGED <<refineVars, analyzeVars, startupVars>>
    /\ LET a == AnalyseDetection(det, strict, outcome)
           text == IF ~Gated(det) /\ detections # <<>>
                   THEN detections[Len(detections)].analysis ELSE a.analysis
       IN /\ results' = Append(results, det)
          /\ detections' = Append(detections, DetectionRecord(det, text))
          /\ dtrace' = Append(dtrace, a.trace)
    /\ UNCHANGED <<image_size, deep_analysis, response_data, dpc>>

\* One turn of the loop of lines 650-708 on the next raw detection
ProcessBox(det, strict, outcome) ==
    /\ MoreBoxes
    /\ UNCHANGED <<refineVars, analyzeVars, startupVars>>
    /\ LET a == AnalyseDetection(det, strict, outcome)
       IN /\ results' = Append(results, det)
          /\ detections' = Append(detections, DetectionRecord(det, a.analysis))
          /\ dtrace' = Append(dtrace, a.trace)
    /\ UNCHANGED <<image_size, deep_analysis, response_data, dpc>>

\* Faulty variant: the list is returned with the last detection first
ReturnDetections_Reversed ==
    /\ UNCHANGED <<refineVars, analyzeVars, startupVars>>
    /\ dpc = "loop"
    /\ response_data' = [i \in 1..Len(detections) |->
                            ResponseRecord(detections[Len(detections) + 1 - i])]
    /\ dpc' = "returned"
    /\ UNCHANGED <<image_size, deep_analysis, results, detections, dtrace>>

\* lines 710-724: the detector has no further box; the list is returned
ReturnDetections ==
    /\ UNCHANGED <<refineVars, analyzeVars, startupVars>>
    /\ dpc = "loop"
    /\ response_data' = [i \in 1..Len(detections) |-> ResponseRecord(detections[i])]
    /\ dpc' = "returned"
    /\ UNCHANGED <<image_size, deep_analysis, results, detections, dtrace>>

\* Inputs for the percentage box of lines 702-707.  <<img_width, img_height>>
\* as np.array(image).shape gives them; 0 is the width of an empty image.
NormSizes == { <<1, 1>>, <<3, 7>>, <<16, 9>>, <<1000, 500>>, <<0, 7>> }

\* Coordinates along a side of `dim` pixels, in 1/10 pixel: both ends and a
\* point a third of the way
Coords(dim) == {0, (dim * 10) \div 3, dim * 10}

\* the box (100, 100)-(200, 150)
ExampleBox == <<1000, 1000, 2000, 1500>>

\* The boxes a detector reports for an image: x1 <= x2 and y1 <= y2 within
\* the image, and, since process_detections takes the box as it comes, one
\* with its x ends exchanged and one that ends a pixel outside the image.
NormBoxes(size) ==
    { <<a, c, b, d>> : a \in Coords(size[1]), b \in Coords(size[1]),
                       c \in Coords(size[2]), d \in Coords(size[2]) }

NormDetections(size) ==
    { Raw("person", 9000, bx) :
        bx \in { q \in NormBoxes(size) : q[1] <= q[3] /\ q[2] <= q[4] }
                 \cup { <<size[1] * 10, 0, 0, size[2] * 10>>,
                        <<10, 10, size[1] * 10 + 10, size[2] * 10 + 10>> }
                 \cup (IF size = <<1000, 500>> THEN {ExampleBox} ELSE {}) }

-----------------------------------------------------------------------------
(* analyze_box, server.py:398-470.  The handler keeps no state between     *)
(* calls, so one call is modelled.                                          *)

BoxSizes == { <<50, 50>>, <<200, 100>> }

\* {x, y, width, height} in percent
FullBox  == [x |-> 0, y |-> 0, width |-> 100, height |-> 100]
InnerBox == [x |-> 20, y |-> 30, width |-> 50, height |-> 40]
RimBox   == [x |-> 180, y |-> 0, width |-> 10, height |-> 100]
AwayBox  == [x |-> 400, y |-> 0, width |-> 10, height |-> 100]

\* Request bodies.  image: "none" (key absent or empty), "bad" (not a
\* decodable image) or "ok"; box and type may be absent.
BoxRequests ==
    { r \in [image : {"none", "bad", "ok"}, size : BoxSizes,
             has_box : BOOLEAN, box : {FullBox, InnerBox, RimBox, AwayBox},
             has_type : BOOLEAN, type : ClassNames] :
        /\ r.image # "ok" => r.size = <<50, 50>>
        /\ ~r.has_box => r.box = FullBox
        /\ ~r.has_type => r.type = "person" }

\* request.get("type", "person")
RequestType(req) == IF req.has_type THEN req.type ELSE "person"

\* lines 438-445: OBJECT_CONFIG.get(obj_type, default)["task"] and ["prompt"]
ConfigTask(obj_type) ==
    IF obj_type \in DOMAIN OBJECT_CONFIG
    THEN OBJECT_CONFIG[obj_type].task ELSE "<DETAILED_CAPTION>"

ConfigPrompt(obj_type) ==
    IF obj_type \in DOMAIN OBJECT_CONFIG
    THEN OBJECT_CONFIG[obj_type].prompt ELSE ""

\* Faulty variant: the hint of the profile passed on for every task
HintFor_Kept(task, profile_prompt) == profile_prompt

\* lines 445-450: the hint is dropped for the caption task
HintFor(task, profile_prompt) ==
    IF task = "<DETAILED_CAPTION>" THEN "" ELSE profile_prompt

\* lines 456-464: the text taken from the describer's mapping
AnalysisOf(task, florence_results) ==
    IF task = "<VQA>" THEN DictGet(florence_results, "<VQA>", "No answer")
    ELSE IF HasKey(florence_results, task) THEN Lookup(florence_results, task)
    ELSE IF florence_results # <<>> THEN florence_results[1][2]
    ELSE "No analysis result"

\* lines 419-430: percentages to pixels, then the padded and clamped box.
\* int() of a non-negative quotient is its floor.
BoxCrop(box, img_width, img_height) ==
    << Max(0, ((box.x * img_width) \div 100) - pad),
       Max(0, ((box.y * img_height) \div 100) - pad),
       Min(img_width, (((box.x + box.width) * img_width) \div 100) + pad),
       Min(img_height, (((box.y + box.height) * img_height) \div 100) + pad) >>

NoBoxTrace ==
    [described |-> FALSE, engine |-> FALSE, failed |-> FALSE, size |-> <<0, 0>>,
     task |-> "", profile_prompt |-> "", text_input |-> "", prompt |-> "",
     florence_results |-> <<>>]

\* line 431 is reached
Crops(req) == florence_model /\ req.image = "ok" /\ req.has_box

\* line 454 is reached
DescribesBox(req, strict) ==
    /\ Crops(req)
    /\ ~(CropInverted(BoxCrop(req.box, req.size[1], req.size[2])) /\ strict)

\* The whole handler.  Whatever is raised inside the try block, the 400 of
\* line 413 included, is answered by line 470 with status 200.
AnalyzeBox(req, strict, outcome) ==
    /\ UNCHANGED <<refineVars, detectVars, startupVars>>
    /\ box_response.status = 0
    /\ box_request' = req
    /\ LET cb == BoxCrop(req.box, req.size[1], req.size[2])
           size == CropSize(cb)
           task == ConfigTask(RequestType(req))
           hint == HintFor(task, ConfigPrompt(RequestType(req)))
           fr == FlorenceResults(size, task, hint, outcome)
       IN IF ~florence_model
          THEN /\ box_response' = [status |-> 503, detail |-> "VLM not loaded"]
               /\ box_trace' = NoBoxTrace
          ELSE IF req.image = "none" \/ ~req.has_box
          THEN /\ box_response' =
                    [status |-> 200,
                     analysis |-> "Error: 400: Missing image data or box coordinates"]
               /\ box_trace' = NoBoxTrace
          ELSE IF req.image = "bad"
          THEN /\ box_response' =
                    [status |-> 200, analysis |-> "Error: cannot identify image file"]
               /\ box_trace' = NoBoxTrace
          ELSE IF ~DescribesBox(req, strict)
          THEN /\ box_response' =
                    [status |-> 200, analysis |-> "Error: " \o CropErrorText(cb)]
               /\ box_trace' = NoBoxTrace
          ELSE /\ box_response' = [status |-> 200, analysis |-> AnalysisOf(task, fr)]
               /\ box_trace' =
                    [described |-> TRUE, engine |-> EngineReached(size),
                     failed |-> FlorenceFailed(size, task, outcome), size |-> size,
                     task |-> task, profile_prompt |-> ConfigPrompt(RequestType(req)),
                     text_input |-> hint, prompt |-> BuildFlorencePrompt(task, hint),
                     florence_results |-> fr]
    /\ UNCHANGED florence_model

-----------------------------------------------------------------------------
(* lifespan, server.py:44-91, and get_status, server.py:114-133.  The loads  *)
(* run in the order of the source: detector, summarizer, Florence model,     *)
(* Florence processor.  A load that raises ends in the except branch of      *)
(* lines 82-89, which is part of the same step.                              *)

YoloOutcomes == {"ok", "load raises", "to raises"}

QwenOutcomes == {"ok", "tokenizer raises", "model raises"}

NoStatus == [status_code |-> 0]

\* lines 85-89: the server goes on only with a detector and a Florence model
ExceptBranch(yolo, florence) ==
    IF yolo /\ florence THEN "serving" ELSE "failed"

\* lines 51-52: YOLO('yolo11x.pt') and .to(device)
LoadYolo(outcome) ==
    /\ lifespan_pc = "yolo"
    /\ yolo_model' = (outcome # "load raises")
    /\ IF outcome = "ok"
       THEN /\ lifespan_pc' = "qwen"
            /\ UNCHANGED load_error
       ELSE /\ lifespan_pc' = ExceptBranch(yolo_model', florence_model)
            /\ load_error' = "yolo"
    /\ UNCHANGED <<refineVars, detectVars, analyzeVars, florence_processor,
                   status_response>>

\* lines 60-66: the tokenizer, then the model of the summarizer
LoadQwen(outcome) ==
    /\ lifespan_pc = "qwen"
    /\ summarizer_model' = (outcome = "ok")
    /\ IF outcome = "ok"
       THEN /\ lifespan_pc' = "florence"
            /\ UNCHANGED load_error
       ELSE /\ lifespan_pc' = ExceptBranch(yolo_model, florence_model)
            /\ load_error' = "qwen"
    /\ UNCHANGED <<event_loop, current_summarize_id, pc, request, current_id,
                   query, output_ids, response, seen, overlap>>
    /\ UNCHANGED <<detectVars, analyzeVars, yolo_model, florence_processor,
                   status_response>>

\* lines 72-77: florence_model is assigned when from_pretrained, .to and
\* .eval have all returned
LoadFlorence(ok) ==
    /\ lifespan_pc = "florence"
    /\ florence_model' = ok
    /\ IF ok
       THEN /\ lifespan_pc' = "processor"
            /\ UNCHANGED load_error
       ELSE /\ lifespan_pc' = ExceptBranch(yolo_model, florence_model')
            /\ load_error' = "florence"
    /\ UNCHANGED <<box_request, box_response, box_trace>>
    /\ UNCHANGED <<refineVars, detectVars, yolo_model, florence_processor,
                   status_response>>

\* lines 78-81: the processor, then the yield
LoadProcessor(ok) ==
    /\ lifespan_pc = "processor"
    /\ florence_processor' = ok
    /\ IF ok
       THEN /\ lifespan_pc' = "serving"
            /\ UNCHANGED load_error
       ELSE /\ lifespan_pc' = ExceptBranch(yolo_model, florence_model)
            /\ load_error' = "processor"
    /\ UNCHANGED <<refineVars, detectVars, analyzeVars, yolo_model,
                   status_response>>

\* lines 118-133: the answer of get_status
StatusOf(yolo, florence, summarizer) ==
    IF ~yolo
    THEN [status_code |-> 503, status |-> "error", vlm |-> "none",
          summarizer |-> "none"]
    ELSE [status_code |-> 200, status |-> "ready",
          vlm |-> IF florence THEN "Florence-2-large" ELSE "none",
          summarizer |-> IF summarizer THEN "Qwen2.5-0.5B-Instruct" ELSE "none"]

\* get_status, answered once lifespan has yielded
GetStatus ==
    /\ lifespan_pc = "serving"
    /\ status_response' = StatusOf(yolo_model, florence_model, summarizer_model)
    /\ UNCHANGED <<refineVars, detectVars, analyzeVars, yolo_model,
                   florence_processor, lifespan_pc, load_error>>

\* line 750: without a processor the call of florence_processor raises
EngineOutcomes ==
    IF florence_processor THEN FlorenceOutcomes ELSE {"processor_raises"}

-----------------------------------------------------------------------------
(* Initial states and specifications *)

RefineInit ==
    /\ event_loop \in BOOLEAN
    /\ summarizer_model \in BOOLEAN
    /\ current_summarize_id = 0
    /\ pc = [c \in Calls |-> "idle"]
    /\ request = [c \in Calls |-> NoRequest]
    /\ query = [c \in Calls |-> <<>>]
    /\ current_id = [c \in Calls |-> 0]
    /\ output_ids = [c \in Calls |-> <<>>]
    /\ response = [c \in Calls |-> NoResponse]
    /\ seen = [c \in Calls |-> 0]
    /\ overlap = [c \in Calls |-> {}]

\* no summarize_text call is made
RefineIdle ==
    /\ RefineInit
    /\ event_loop = TRUE
    /\ summarizer_model = TRUE

DetectInit ==
    /\ image_size \in ImageSizes
    /\ deep_analysis \in BOOLEAN
    /\ results = <<>>
    /\ detections = <<>>
    /\ response_data = <<>>
    /\ dpc = "loop"
    /\ dtrace = <<>>

\* no process_detections call is made
DetectIdle ==
    /\ DetectInit
    /\ image_size = <<50, 50>>
    /\ deep_analysis = FALSE

AnalyzeInit ==
    /\ florence_model \in BOOLEAN
    /\ box_request = [image |-> "none", size |-> <<50, 50>>, has_box |-> FALSE,
                      box |-> FullBox, has_type |-> FALSE, type |-> "person"]
    /\ box_response = [status |-> 0]
    /\ box_trace = NoBoxTrace

\* no analyze_box call is made
AnalyzeIdle ==
    /\ AnalyzeInit
    /\ florence_model = TRUE

\* the globals of lines 32-36 before lifespan runs
StartupInit ==
    /\ yolo_model = FALSE
    /\ florence_processor = FALSE
    /\ lifespan_pc = "yolo"
    /\ load_error = "none"
    /\ status_response = NoStatus

\* lifespan has yielded at line 81 and get_status is not called
StartupIdle ==
    /\ yolo_model = TRUE
    /\ florence_processor = TRUE
    /\ lifespan_pc = "serving"
    /\ load_error = "none"
    /\ status_response = NoStatus

vars == <<refineVars, detectVars, analyzeVars, startupVars>>

\* the summarize_text calls
Init == RefineInit /\ DetectIdle /\ AnalyzeIdle /\ StartupIdle

Next ==
    \E c \in Calls :
        \/ \E req \in Requests : Enter(c, req)
        \/ ReadCounter(c)
        \/ WriteCounter(c)
        \/ BuildPrompt(c)
        \/ GenerateToken(c)
        \/ CheckCancelled(c)
        \/ ReturnSummary(c)
        \/ Raise(c)

Spec == Init /\ [][Next]_vars

\* one summarize_text call, over the requests of refine mode
InitRefine == RefineIdle /\ DetectIdle /\ AnalyzeIdle /\ StartupIdle

NextRefine ==
    \/ \E req \in RefineRequests : Enter(1, req)
    \/ ReadCounter(1)
    \/ WriteCounter(1)
    \/ BuildPrompt(1)
    \/ GenerateToken(1)
    \/ CheckCancelled(1)
    \/ ReturnSummary(1)
    \/ Raise(1)

\* The next statement of a call that has entered
Step(c) ==
    \/ ReadCounter(c)
    \/ WriteCounter(c)
    \/ BuildPrompt(c)
    \/ GenerateToken(c)
    \/ CheckCancelled(c)
    \/ ReturnSummary(c)
    \/ Raise(c)

\* the refine request bodies, with which a call reaches generation
LiveRequests == {req \in Requests : GetText(req) # "" /\ GetMode(req) = "refine"}

\* The summarize_text calls that are served, under a scheduler that lets
\* every handler that can take a step take it in the end: a thread of the pool
\* is not starved for ever, and the event loop runs the handler that holds it.
InitLive == RefineInit /\ summarizer_model = TRUE /\ DetectIdle /\ AnalyzeIdle /\ StartupIdle

NextLive ==
    \E c \in Calls :
        \/ \E req \in LiveRequests : Enter(c, req)
        \/ Step(c)

SpecLive ==
    /\ InitLive
    /\ [][NextLive]_vars
    /\ \A c \in Calls : WF_vars(Step(c))

SpecRefine == InitRefine /\ [][NextRefine]_vars

\* one process_detections call
InitDetect == RefineIdle /\ DetectInit /\ AnalyzeIdle /\ StartupIdle

\* The behaviour of image.crop is drawn only where the box is inverted, the
\* behaviour of the engine only where the describer is called.
NextDetect ==
    \/ /\ MoreBoxes
       /\ \E det \in RawDetections :
         \E strict \in (IF Gated(det) /\ CropInverted(DetectionCrop(det))
                        THEN BOOLEAN ELSE {FALSE}) :
           \E outcome \in (IF Describes(det, strict) THEN FlorenceOutcomes ELSE {"ok"}) :
             ProcessBox(det, strict, outcome)
    \/ ReturnDetections

SpecDetect == InitDetect /\ [][NextDetect]_vars

\* one process_detections call as the detect handlers make it (lines 329 and
\* 380: deep_analysis=False), over the sizes and boxes of the percentage box
InitNormalize ==
    /\ RefineIdle /\ AnalyzeIdle /\ StartupIdle
    /\ image_size \in NormSizes
    /\ deep_analysis = FALSE
    /\ results = <<>>
    /\ detections = <<>>
    /\ response_data = <<>>
    /\ dpc = "loop"
    /\ dtrace = <<>>

NextNormalize ==
    \/ /\ MoreBoxes
       /\ \E det \in NormDetections(image_size) : ProcessBox(det, FALSE, "ok")
    \/ ReturnDetections

SpecNormalize == InitNormalize /\ [][NextNormalize]_vars

\* the analyze_box calls
InitAnalyze == RefineIdle /\ DetectIdle /\ AnalyzeInit /\ StartupIdle

NextAnalyze ==
    /\ box_response.status = 0
    /\ \E req \in BoxRequests :
      \E strict \in (IF Crops(req) /\ CropInverted(BoxCrop(req.box, req.size[1], req.size[2]))
                     THEN BOOLEAN ELSE {FALSE}) :
        \E outcome \in (IF DescribesBox(req, strict) THEN FlorenceOutcomes ELSE {"ok"}) :
          AnalyzeBox(req, strict, outcome)

SpecAnalyze == InitAnalyze /\ [][NextAnalyze]_vars

\* the start of the server, then get_status and one analyze_box call
InitStartup ==
    /\ StartupInit
    /\ RefineInit /\ event_loop = TRUE /\ summarizer_model = FALSE
    /\ DetectIdle
    /\ AnalyzeInit /\ florence_model = FALSE

NextStartup ==
    \/ \E outcome \in YoloOutcomes : LoadYolo(outcome)
    \/ \E outcome \in QwenOutcomes : LoadQwen(outcome)
    \/ \E ok \in BOOLEAN : LoadFlorence(ok)
    \/ \E ok \in BOOLEAN : LoadProcessor(ok)
    \/ GetStatus
    \/ /\ lifespan_pc = "serving"
       /\ box_response.status = 0
       /\ \E req \in BoxRequests :
         \E strict \in (IF Crops(req) /\ CropInverted(BoxCrop(req.box, req.size[1], req.size[2]))
                        THEN BOOLEAN ELSE {FALSE}) :
           \E outcome \in (IF DescribesBox(req, strict) THEN EngineOutcomes ELSE {"ok"}) :
             AnalyzeBox(req, strict, outcome)

SpecStartup == InitStartup /\ [][NextStartup]_vars

-----------------------------------------------------------------------------
(* Properties of summarize_text *)

\* How a client reads the result: the key "cancelled" is present and true
\* only in the answer of line 568; the answer of line 571 has no such key.
Cancelled(r) == "cancelled" \in DOMAIN r /\ r.cancelled

Returned(c) == pc[c] = "done" /\ response[c].status = 200

\* The calls that have executed line 489
Advanced == {c \in Calls : pc[c] \in {"l491", "generate", "l566", "l570"}
                           \/ (pc[c] = "done" /\ current_id[c] # 0)}

HintByPriority(req, default) ==
    LET ty == GetType(req)
        cat == GetCategory(req)
        known == ty \in DOMAIN OBJECT_CONFIG
    IN IF known /\ OBJECT_CONFIG[ty].llm_query # "" THEN OBJECT_CONFIG[ty].llm_query
       ELSE IF known /\ OBJECT_CONFIG[ty].prompt # "" THEN OBJECT_CONFIG[ty].prompt
       ELSE IF cat \in {"Humans", "Vehicles", "Animals", "Electronics", "Food", "Household"}
            THEN fallback_config[cat]
       ELSE default

\* The query of call c was composed in refine mode
RefineBuilt(c) == query[c] # <<>> /\ GetMode(request[c]) = "refine"

\* The query of call c holds the text, the hint h and the 20-words instruction
QueryHolds(c, h) ==
    /\ h # ""
    /\ \E i \in 1..Len(query[c]) : query[c][i] = GetText(request[c])
    /\ \E i \in 1..Len(query[c]) : query[c][i] = h
    /\ \E i \in 1..Len(query[c]) : query[c][i] = "Maximum 20 words."

Rejected(c) ==
    /\ pc[c] = "done"
    /\ \/ response[c].status = 503
       \/ /\ response[c].status = 500
          /\ response[c].detail = "Summarization failed: 400: No text provided"

\* C17: a call rejected because the engine is not loaded or because the text
\* is missing or empty has captured no id, composed no query and generated
\* nothing; the step that rejects it leaves the counter and every other call
\* as they were; and a call is cancelled only if another call went on to
\* advance the counter.
C17_RejectedBeforeProcessing ==
    /\ [](\A c \in Calls :
            Rejected(c) => current_id[c] = 0 /\ query[c] = <<>> /\ output_ids[c] = <<>>)
    /\ [](\A b \in Calls :
            (Returned(b) /\ Cancelled(response[b])) => Advanced \ {b} # {})
    /\ [][\A c \in Calls :
            (pc[c] = "idle" /\ Rejected(c)')
            => /\ current_summarize_id' = current_summarize_id
               /\ output_ids' = output_ids
               /\ \A d \in Calls \ {c} : pc'[d] = pc[d] /\ response'[d] = response[d]]_vars

\* C17 witness: on threads one call was rejected for its empty text and the
\* other, the only one to advance the counter, is generating.
C17_Witness ==
    \E a, b \in Calls :
        /\ ~event_loop
        /\ Rejected(a)
        /\ request[a] = Body({"text"}, "", "", "", "")
        /\ pc[b] = "generate"
        /\ output_ids[b] # <<>>
        /\ current_summarize_id = 1
        /\ current_id[b] = 1

-----------------------------------------------------------------------------
(* Properties of process_detections *)

DetectionsReturned == dpc = "returned"

\* C5 as stated: in every returned record a non-empty analysis implies that
\* deep analysis was enabled, that is_analyzable is true and that the
\* record's confidence is above 0.85; a record whose confidence is at most
\* 0.85 has the analysis "".
C5_RecordConfidenceGate ==
    DetectionsReturned =>
        \A i \in 1..Len(response_data) :
            /\ response_data[i].analysis # "" =>
                   /\ deep_analysis
                   /\ response_data[i].is_analyzable
                   /\ response_data[i].confidence > 850
            /\ response_data[i].confidence <= 850 => response_data[i].analysis = ""

\* C5 amended: a non-empty analysis implies that deep analysis was enabled,
\* that is_analyzable is true and that the confidence the detector reported
\* is above 0.85, so that the record's confidence, rounded to 3 places, is at
\* least 0.85; a detection reported with a confidence of at most 0.85 has
\* the analysis "".
C5_RawConfidenceGate ==
    DetectionsReturned =>
        \A i \in 1..Len(response_data) :
            /\ response_data[i].analysis # "" =>
                   /\ deep_analysis
                   /\ response_data[i].is_analyzable
                   /\ results[i].confidence > 8500
                   /\ response_data[i].confidence >= 850
            /\ results[i].confidence <= 8500 => response_data[i].analysis = ""

\* C5 witness: with deep analysis enabled, an analyzable detection reported
\* at 0.8504 carries an analysis in a record of confidence 0.85, and an
\* analyzable detection reported at 0.85 carries none.
C5_Witness ==
    /\ DetectionsReturned
    /\ deep_analysis
    /\ \E i, j \in 1..Len(response_data) :
        /\ results[i].confidence = 8504
        /\ response_data[i].confidence = 850
        /\ response_data[i].analysis # ""
        /\ results[j].confidence = 8500
        /\ response_data[j].is_analyzable
        /\ response_data[j].analysis = ""

\* C6: a raw detection whose class is no key of the registry still gets its
\* record, in its place, with is_analyzable false, category "Misc" and the
\* analysis "", whatever its confidence and the deep_analysis argument.
C6_UnknownClassKept ==
    /\ Len(detections) = Len(results)
    /\ DetectionsReturned => Len(response_data) = Len(results)
    /\ \A i \in 1..Len(results) :
         results[i].class_name \notin DOMAIN OBJECT_CONFIG =>
            /\ detections[i].class = results[i].class_name
            /\ detections[i].is_analyzable = FALSE
            /\ detections[i].category = "Misc"
            /\ detections[i].analysis = ""
            /\ DetectionsReturned =>
                 /\ response_data[i].type = results[i].class_name
                 /\ response_data[i].is_analyzable = FALSE
                 /\ response_data[i].category = "Misc"
                 /\ response_data[i].analysis = ""

\* C6 witness: a call with deep analysis enabled has returned the record of
\* an unknown class reported with confidence 0.9.
C6_Witness ==
    /\ DetectionsReturned
    /\ deep_analysis
    /\ \E i \in 1..Len(response_data) :
        /\ results[i].class_name = UnknownClass
        /\ results[i].confidence = 9000
        /\ response_data[i].type = UnknownClass

\* C10: when a detection passes the gate and image.crop returns, for its box
\* padded by 40 pixels and clamped to the image, a crop of width < 5 or
\* height < 5, the describer is not called and the analysis is the text
\* "Crop too small", which is not the empty text of a declined gate.
C10_CropTooSmall ==
    \A i \in 1..Len(results) :
        LET b == results[i].xyxy
            w == Min(image_size[1], PyInt(b[3]) + 40) - Max(0, PyInt(b[1]) - 40)
            h == Min(image_size[2], PyInt(b[4]) + 40) - Max(0, PyInt(b[2]) - 40)
        IN (/\ deep_analysis
            /\ ConfigIsAnalyzable(results[i].class_name)
            /\ results[i].confidence > 8500
            /\ dtrace[i].crop # "raised"
            /\ (w < 5 \/ h < 5))
           => /\ detections[i].analysis = "Crop too small"
              /\ detections[i].analysis # ""
              /\ ~dtrace[i].described
              /\ ~dtrace[i].engine

\* C10 witness: the outcome in a 50x50 image, next to a detection of the
\* same call that the gate declined.
C10_Witness ==
    /\ image_size = <<50, 50>>
    /\ \E i, j \in 1..Len(detections) :
        /\ dtrace[i].gate
        /\ dtrace[i].crop = "ok"
        /\ detections[i].analysis = "Crop too small"
        /\ ~dtrace[j].gate
        /\ detections[j].analysis = ""

Abs(n) == IF n >= 0 THEN n ELSE -n

\* p, in 1/100 percent, is 100 * x / dim rounded to 2 decimal places, for a
\* coordinate x in 1/10 pixel
IsPercentOf(p, x, dim) == 2 * Abs(p * dim - 1000 * x) <= dim

\* The pixel box lies in the image with its ends in order
InImage(b, size) ==
    /\ 0 <= b[1] /\ b[1] <= b[3] /\ b[3] <= size[1] * 10
    /\ 0 <= b[2] /\ b[2] <= b[4] /\ b[4] <= size[2] * 10

\* C11: for a pixel box with 0 <= x1 <= x2 <= W and 0 <= y1 <= y2 <= H in an
\* image with W, H > 0, the percentage box of the record satisfies
\* 0 <= x1 <= x2 <= 100 and 0 <= y1 <= y2 <= 100, and the width and height
\* of the returned record are not negative.
C11_PercentBoxOrdered ==
    \A i \in 1..Len(results) :
        (image_size[1] > 0 /\ image_size[2] > 0 /\ InImage(results[i].xyxy, image_size))
        => LET bb == detections[i].bbox
           IN /\ 0 <= bb.x1 /\ bb.x1 <= bb.x2 /\ bb.x2 <= 10000
              /\ 0 <= bb.y1 /\ bb.y1 <= bb.y2 /\ bb.y2 <= 10000
              /\ DetectionsReturned =>
                    /\ response_data[i].width >= 0
                    /\ response_data[i].height >= 0

\* C11 witness: a returned record of a box that reaches the right and lower
\* edge of a 16x9 image and starts at 5.3 pixels, where the percentage
\* 33.125 is rounded.
C11_Witness ==
    /\ DetectionsReturned
    /\ image_size = <<16, 9>>
    /\ \E i \in 1..Len(results) :
        /\ results[i].xyxy = <<53, 30, 160, 90>>
        /\ response_data[i].x = 3312
        /\ response_data[i].x + response_data[i].width = 10000
        /\ response_data[i].y + response_data[i].height = 10000

\* C12: in an image with W, H > 0 each coordinate of the percentage box is
\* 100 times the pixel coordinate divided by the image dimension of its
\* axis, rounded to 2 decimal places; in a 1000x500 image the box
\* (100,100)-(200,150) gives x1 = 10.00, y1 = 20.00, x2 = 20.00, y2 = 30.00.
C12_PercentIsRoundedQuotient ==
    \A i \in 1..Len(results) :
        (image_size[1] > 0 /\ image_size[2] > 0)
        => LET bb == detections[i].bbox
               b == results[i].xyxy
           IN /\ IsPercentOf(bb.x1, b[1], image_size[1])
              /\ IsPercentOf(bb.y1, b[2], image_size[2])
              /\ IsPercentOf(bb.x2, b[3], image_size[1])
              /\ IsPercentOf(bb.y2, b[4], image_size[2])
              /\ (image_size = <<1000, 500>> /\ b = <<1000, 1000, 2000, 1500>>)
                 => bb = [x1 |-> 1000, y1 |-> 2000, x2 |-> 2000, y2 |-> 3000]

\* C12 witness: the example box was normalized in the 1000x500 image, next
\* to a box whose percentages are no whole numbers.
C12_Witness ==
    /\ image_size = <<1000, 500>>
    /\ \E i, j \in 1..Len(results) :
        /\ results[i].xyxy = ExampleBox
        /\ detections[i].bbox.y2 = 3000
        /\ results[j].xyxy = <<3333, 1666, 10000, 5000>>
        /\ detections[j].bbox.x1 = 3333
        /\ detections[j].bbox.y1 = 3332

\* C13: when the image width or height is <= 0 the normalization fails: no
\* record holds a percentage box computed from that dimension and the call
\* returns no list.
C13_InvalidImageRejected ==
    (image_size[1] <= 0 \/ image_size[2] <= 0)
    => /\ detections = <<>>
       /\ ~DetectionsReturned

\* The record is that of the raw detection: its class, its confidence
\* rounded to 3 places, its box as percentages
RecordDescribes(rec, det) ==
    /\ rec.class = det.class_name
    /\ 2 * Abs(rec.confidence * 10 - det.confidence) <= 10
    /\ IsPercentOf(rec.bbox.x1, det.xyxy[1], image_size[1])
    /\ IsPercentOf(rec.bbox.y1, det.xyxy[2], image_size[2])
    /\ IsPercentOf(rec.bbox.x2, det.xyxy[3], image_size[1])
    /\ IsPercentOf(rec.bbox.y2, det.xyxy[4], image_size[2])

\* C14: there is exactly one record per raw detection and the i-th record,
\* in `detections` and in the returned list, describes the i-th raw
\* detection, whatever the gate decided and whether or not the analysis
\* failed.
C14_OneRecordPerDetectionInOrder ==
    /\ Len(detections) = Len(results)
    /\ DetectionsReturned => Len(response_data) = Len(results)
    /\ \A i \in 1..Len(results) :
         /\ RecordDescribes(detections[i], results[i])
         /\ DetectionsReturned =>
              /\ response_data[i].type = results[i].class_name
              /\ response_data[i].confidence = detections[i].confidence
              /\ response_data[i].x = detections[i].bbox.x1
              /\ response_data[i].y = detections[i].bbox.y1
              /\ response_data[i].analysis = detections[i].analysis

\* C14 witness: a returned list of two records in the order of the raw
\* detections, the one with the lower confidence first; the gate declined
\* the first and the crop of the second raised.
C14_Witness ==
    /\ DetectionsReturned
    /\ Len(response_data) = 2
    /\ results[1].confidence < results[2].confidence
    /\ response_data[1].type = "cow"
    /\ response_data[2].type = "person"
    /\ ~dtrace[1].gate
    /\ dtrace[2].crop = "raised"

\* The analysis of the i-th detection failed: image.crop raised, or the
\* describer answered with a diagnostic
AnalysisFailed(i) ==
    \/ dtrace[i].crop = "raised"
    \/ /\ dtrace[i].described
       /\ dtrace[i].florence_results # Dict1("<DETAILED_CAPTION>", GeneratedText)

\* C15: a failure while analysing one detection changes only the analysis
\* text of that detection, which is a diagnostic: its record and the record
\* of every other detection are there, each with the class, confidence and
\* box of its raw detection, and the analysis of a detection that did not
\* fail is what its own gate and crop give.
C15_FailureIsolated ==
    /\ Len(detections) = Len(results)
    /\ DetectionsReturned => Len(response_data) = Len(results)
    /\ \A i \in 1..Len(results) :
         /\ RecordDescribes(detections[i], results[i])
         /\ AnalysisFailed(i) => detections[i].analysis \notin {"", GeneratedText}
         /\ ~AnalysisFailed(i) =>
              detections[i].analysis =
                 IF ~(/\ deep_analysis
                      /\ ConfigIsAnalyzable(results[i].class_name)
                      /\ results[i].confidence > 8500)
                 THEN ""
                 ELSE IF dtrace[i].described THEN GeneratedText
                 ELSE "Crop too small"
         /\ DetectionsReturned => response_data[i].analysis = detections[i].analysis

\* C15 witness: in a returned list the describer failed for the first
\* detection and described the second.
C15_Witness ==
    /\ DetectionsReturned
    /\ Len(response_data) = 2
    /\ AnalysisFailed(1)
    /\ dtrace[1].described
    /\ response_data[1].analysis = "Generation error: out of memory"
    /\ ~AnalysisFailed(2)
    /\ response_data[2].analysis = GeneratedText

-----------------------------------------------------------------------------
(* Properties of analyze_box and run_florence_analysis *)

C8_VqaPromptIsMarkerThenHint ==
    (box_trace.described /\ ConfigTask(RequestType(box_request)) = "<VQA>")
    => box_trace.prompt = "<VQA>" \o OBJECT_CONFIG[RequestType(box_request)].prompt

\* C8 witness: the engine was reached with the prompt of the car profile.
C8_Witness ==
    /\ box_trace.described
    /\ box_trace.engine
    /\ box_request.type = "car"
    /\ box_trace.prompt = "<VQA>What is the make and model of this car?"

\* C9: whenever run_florence_analysis fails, the mapping it returns has an
\* entry under the task marker it was called with, and analyze_box answers
\* with a text.
C9_FailureUnderTaskKey ==
    (box_trace.described /\ box_trace.failed)
    => /\ HasKey(box_trace.florence_results, box_trace.task)
       /\ box_response.status = 200

\* The text the rule of extraction takes from a mapping for a task marker
\* when the mapping is not empty
ByKeyThenFirstValue(florence_results, task) ==
    IF HasKey(florence_results, task) THEN Lookup(florence_results, task)
    ELSE florence_results[1][2]

\* C20: the analysis text taken from the describer's mapping, by analyze_box
\* and by process_detections, is the value under the task marker the
\* describer was called with if that key is present, else the first value of
\* the mapping if there is one, else a placeholder; for the VQA task as for
\* the others.
C20_AnalysisByKeyThenFirstValue ==
    /\ box_trace.described =>
         IF box_trace.florence_results # <<>>
         THEN box_response.analysis =
                ByKeyThenFirstValue(box_trace.florence_results, box_trace.task)
         ELSE box_response.analysis \in {"No analysis result", "No answer"}
    /\ \A i \in 1..Len(dtrace) :
         dtrace[i].described =>
            IF dtrace[i].florence_results # <<>>
            THEN detections[i].analysis =
                   ByKeyThenFirstValue(dtrace[i].florence_results, "<DETAILED_CAPTION>")
            ELSE detections[i].analysis = "No caption"

-----------------------------------------------------------------------------
(* Further properties of process_detections *)

\* C21: every call of the describer made by process_detections has the
\* caption marker alone as its prompt, whatever the class of the detection
\* and the task of its profile; no prompt is a VQA prompt.
C21_DescriberAlwaysCaption ==
    \A i \in 1..Len(dtrace) :
        dtrace[i].described =>
            /\ dtrace[i].prompt = "<DETAILED_CAPTION>"
            /\ HasKey(dtrace[i].florence_results, "<DETAILED_CAPTION>")
            /\ ~HasKey(dtrace[i].florence_results, "<VQA>")

\* C21 witness: the describer was called for a car, whose profile has the
\* task VQA, and the engine received the caption marker.
C21_Witness ==
    \E i \in 1..Len(dtrace) :
        /\ results[i].class_name = "car"
        /\ OBJECT_CONFIG["car"].task = "<VQA>"
        /\ dtrace[i].described
        /\ dtrace[i].engine
        /\ dtrace[i].prompt = "<DETAILED_CAPTION>"

\* C24: for a pixel box inside the image the padded and clamped crop box
\* satisfies 0 <= cx1 <= x1, x2 <= cx2 <= W and the same for y, is at least
\* min(W, 40) wide and min(H, 40) high, and image.crop does not raise for it;
\* the analysis is "Crop too small" only if an image dimension is below 5.
\* The same holds for the crop analyze_box takes for a percentage box inside
\* the image.
C24_CropContainsBox ==
    /\ \A i \in 1..Len(results) :
         InImage(results[i].xyxy, image_size) =>
            LET b == results[i].xyxy
                cb == DetectionCrop(results[i])
            IN /\ 0 <= cb[1] /\ cb[1] * 10 <= b[1]
               /\ b[3] <= cb[3] * 10 /\ cb[3] <= image_size[1]
               /\ 0 <= cb[2] /\ cb[2] * 10 <= b[2]
               /\ b[4] <= cb[4] * 10 /\ cb[4] <= image_size[2]
               /\ cb[3] - cb[1] >= Min(image_size[1], 40)
               /\ cb[4] - cb[2] >= Min(image_size[2], 40)
               /\ dtrace[i].crop # "raised"
               /\ dtrace[i].crop = "ok" =>
                     dtrace[i].size = <<cb[3] - cb[1], cb[4] - cb[2]>>
               /\ detections[i].analysis = "Crop too small" =>
                     (image_size[1] < 5 \/ image_size[2] < 5)
    /\ (/\ box_trace.described
        /\ box_request.box.x + box_request.box.width <= 100
        /\ box_request.box.y + box_request.box.height <= 100)
       => LET bx == box_request.box
              w == box_request.size[1]
              h == box_request.size[2]
              cb == BoxCrop(bx, w, h)
          IN /\ 0 <= cb[1] /\ cb[1] * 100 <= bx.x * w
             /\ (bx.x + bx.width) * w <= cb[3] * 100 /\ cb[3] <= w
             /\ 0 <= cb[2] /\ cb[2] * 100 <= bx.y * h
             /\ (bx.y + bx.height) * h <= cb[4] * 100 /\ cb[4] <= h
             /\ box_trace.size = <<cb[3] - cb[1], cb[4] - cb[2]>>
             /\ box_trace.size[1] >= Min(w, 40)
             /\ box_trace.size[2] >= Min(h, 40)

\* C24 witness: in a 50x50 image the describer received the crop of the box
\* (45.9, 0.7)-(50.0, 50.0), which is (5, 0)-(50, 50).
C24_Witness ==
    /\ image_size = <<50, 50>>
    /\ \E i \in 1..Len(results) :
        /\ results[i].xyxy = FracBox
        /\ dtrace[i].described
        /\ dtrace[i].size = <<45, 50>>

-----------------------------------------------------------------------------
(* Further properties of summarize_text *)

\* C22: a summarize request without a text is answered with status 400 and
\* the detail of the check of line 485, and an analyze-box request without an
\* image or a box with status 400 and the detail of the check of line 413.
C22_MissingFieldIs400 ==
    /\ \A c \in Calls :
         (pc[c] = "done" /\ summarizer_model /\ GetText(request[c]) = "")
         => /\ response[c].status = 400
            /\ response[c].detail = "No text provided"
    /\ (/\ box_response.status # 0
        /\ florence_model
        /\ (box_request.image = "none" \/ ~box_request.has_box))
       => /\ box_response.status = 400
          /\ box_response.detail = "Missing image data or box coordinates"

\* C25: on the event loop no two calls are between entry and return at the
\* same time, no call writes the counter while another is between its
\* increment and its check of line 566, and no call returns cancelled.
C25_EventLoopNeverCancels ==
    event_loop =>
        /\ \A a, b \in Calls : a # b => ~(Running(a) /\ Running(b))
        /\ \A c \in Calls :
             /\ overlap[c] = {}
             /\ pc[c] = "done" => ~Cancelled(response[c])

\* C25 witness: on the event loop two calls have returned their summaries
\* under different ids.
C25_Witness ==
    /\ event_loop
    /\ \E a, b \in Calls :
        /\ Returned(a) /\ Returned(b)
        /\ current_id[a] = 1
        /\ current_id[b] = 2
        /\ response[a].summary # <<>>
        /\ response[b].summary # <<>>

\* The call raised after it had executed line 489
FailedAfterIncrement(c) ==
    pc[c] = "done" /\ response[c].status = 500 /\ current_id[c] # 0

-----------------------------------------------------------------------------
(* Properties of lifespan *)

\* C23: when the load of the summarizer raises and the detector is loaded,
\* startup completes: lifespan yields and the server serves without the
\* summarizer; get_status then answers "ready" with summarizer "none".
C23_QwenFailureTolerated ==
    (load_error = "qwen" /\ yolo_model)
    => /\ lifespan_pc = "serving"
       /\ ~summarizer_model
       /\ status_response # NoStatus
          => /\ status_response.status = "ready"
             /\ status_response.summarizer = "none"

-----------------------------------------------------------------------------
(* Termination of summarize_text *)

\* C27: every refine call that has reached generation returns a result or an
\* error in the end.  A call that has returned stays returned, so this is: from
\* some moment on no call is between its entry and its return.  No call ever
\* holds more than max_new_tokens generated tokens, superseded or not, and
\* from generation on the next statement of a call can always be taken,
\* whatever the other calls are doing: it waits for no other call.
C27_GenerationTerminates ==
    /\ [](\A c \in Calls :
            /\ Len(output_ids[c]) <= MaxNewTokens
            /\ pc[c] \in {"generate", "l566", "l570"} => ENABLED Step(c))
    /\ <>[](\A c \in Calls : ~Running(c))

\* C27 witness: a superseded call has generated a token and returned
\* cancelled while the call that superseded it is still running.
C27_Witness ==
    \E a, b \in Calls :
        /\ pc[a] = "done"
        /\ Cancelled(response[a])
        /\ Len(output_ids[a]) >= 1
        /\ Running(b)
        /\ current_id[b] > current_id[a]

====
